---- MODULE Spec2Model ----
(***************************************************************************)
(* State-machine model of the storybook generator:                         *)
(*   - generateIllustration (src/src/lib/gemini.ts), the rate-limit retry  *)
(*     loop with exponential backoff;                                      *)
(*   - StoryWizard (src/unnamed/part_000), the three-step form and         *)
(*     handleGenerate;                                                     *)
(*   - BookPreview (src/unnamed/part_001), page navigation, the batch      *)
(*     illustration loop and exportToPDF;                                  *)
(*   - App and useStore (src/unnamed/part_003), the authentication gate    *)
(*     and the view switch;                                                *)
(*   - App's authentication effect and Login.handleSubmit;                 *)
(*   - ProfileSettings (src/src/components/ProfileSettings.tsx);           *)
(*   - the server (src/server.ts), POST /api/admin/create-user.            *)
(* Each part has its own specification over its own variables.             *)
(***************************************************************************)
EXTENDS Integers, Sequences, FiniteSets, TLC

\* ------------------------------------------------------------------------
\* Bounds of the model (not program constants)
\* ------------------------------------------------------------------------
MaxRetries == 3

NULL == "null"

VARIABLES
  \* generateIllustration (src/src/lib/gemini.ts)
  apiKey,      \* TRUE iff process.env.GEMINI_API_KEY is set
  giPc,        \* position of the invocation: idle, awaiting, sleeping, returned, thrown
  retries,     \* the retries parameter of the invocation
  i,           \* the loop counter of the for loop
  requests,    \* number of ai.models.generateContent requests issued so far
  outcomes,    \* the outcome of every completed request, in order
  waits,       \* the waitTime passed to sleep, in order
  giResult,    \* the value returned, or the error thrown
  \* App and useStore (src/unnamed/part_003)
  user,        \* useStore.user: NULL or the signed-in user's id (parts 4 and 5:
               \* the user object, NoUser for null)
  view,        \* App's view state
  screen,      \* what App renders: "login" or the component of the view
  myBooks,     \* useStore.myBooks: the books fetched from the backend
  currentBook, \* useStore.currentBook
  isLoading,   \* useStore.isLoading
  error,       \* useStore.error
  fetching,    \* number of fetchBooks calls awaiting the backend
  \* StoryWizard (src/unnamed/part_000)
  step,        \* StoryWizard's step state
  formData,    \* StoryWizard's formData state (theme, characterName, pages)
  gen,         \* the handleGenerate invocation: position, locals, steps taken
  books,       \* backend table books, in insertion order
  pageRows,    \* backend table pages
  \* BookPreview (src/unnamed/part_001)
  currentPage,        \* BookPreview's currentPage state: 0 is the cover
  lastNav,            \* the navigation handler that ran last, with the currentPage it
                      \* read (handleNext, handlePrev) or the index it was given
  isGeneratingImg,    \* BookPreview's isGeneratingImg state
  imgs,               \* the handleGenerateImage invocations awaiting their image
  isBatchGenerating,  \* BookPreview's isBatchGenerating state
  batchProgress,      \* BookPreview's batchProgress state
  batch,              \* the handleGenerateAllImages invocation
  pdf,                \* the exportToPDF invocation and its document
  isNarrating,        \* BookPreview's isNarrating state
  narr,               \* the handleNarration invocation
  updCall,            \* useStore.updatePage called on its own: the call's number
                      \* (mod 2) and its arguments
  \* App's authentication effect and Login (src/unnamed/part_003, Login.tsx)
  sessionCheck,       \* supabase.auth.getSession() of the effect: pending or done
  lastEvent,          \* the event and session the onAuthStateChange listener got last
  loginRole,          \* Login's role state (the User/Admin toggle)
  login,              \* the Login.handleSubmit invocation
  logout,             \* the App.handleLogout invocation: idle or awaiting
  \* ProfileSettings (src/src/components/ProfileSettings.tsx)
  brandSettings,      \* useStore.brandSettings
  settingsLoading,    \* ProfileSettings' isLoading state
  isSaved,            \* ProfileSettings' isSaved state
  save,               \* the handleProfileSave and handleBrandSave invocations in
                      \* flight, and the number of pending isSaved timers
  accepted,           \* the updates the backend has accepted
  \* The server (src/server.ts)
  env,                \* process.env: whether the URL and the service-role key are set
  supabaseAdmin,      \* the module variable supabaseAdmin: NoClient or the client
  created,            \* number of createClient calls so far
  req,                \* the POST /api/admin/create-user request being handled
  authUsers,          \* the backend's auth users, in creation order
  profiles            \* the backend table profiles, in insertion order

illusVars == <<apiKey, giPc, retries, i, requests, outcomes, waits, giResult>>

navVars == <<user, view, screen, step, formData>>

storeVars == <<myBooks, currentBook, isLoading, error, fetching>>

genVars == <<gen, books, pageRows>>

previewVars == <<currentPage, lastNav, isGeneratingImg, imgs, isBatchGenerating,
                 batchProgress, batch, pdf, isNarrating, narr, updCall>>

authVars == <<sessionCheck, lastEvent, loginRole, login, logout>>

settingsVars == <<brandSettings, settingsLoading, isSaved, save, accepted>>

serverVars == <<env, supabaseAdmin, created, req, authUsers, profiles>>

\* What the storybook parts leave alone.
outsideStory == <<authVars, settingsVars, serverVars>>

vars == <<illusVars, navVars, storeVars, genVars, previewVars, authVars, settingsVars,
          serverVars>>

\* What each part leaves alone.
outsideIllus == <<navVars, storeVars, genVars, previewVars, outsideStory>>
outsideApp == <<illusVars, previewVars, outsideStory>>
outsidePreview == <<illusVars, navVars, genVars, myBooks, error, fetching, updCall,
                    isNarrating, narr, outsideStory>>
outsideNarration == <<currentPage, lastNav, isGeneratingImg, imgs, isBatchGenerating,
                      batchProgress, batch, pdf>>

\* ========================================================================
\* Part 1: generateIllustration (src/src/lib/gemini.ts)
\* ========================================================================

DefaultRetries == 3
BackoffBaseMs == 2000
JitterRangeMs == 1000

\* Math.random() * 1000 lies in [0, 1000): sampled at both ends and the middle.
JitterSamples == {0, JitterRangeMs \div 2, JitterRangeMs - 1}

\* The errors the image API can raise: message with or without "429", and a status.
ErrorStatuses == {"RESOURCE_EXHAUSTED", "UNAVAILABLE"}
ApiErrors == [kind : {"error"}, has429 : BOOLEAN, status : ErrorStatuses]

\* A response without error either carries inline image data or does not.
ApiResponses == [kind : {"response"}, inlineData : BOOLEAN]

ApiOutcomes == ApiErrors \cup ApiResponses

RECURSIVE Pow2(_)
Pow2(n) == IF n <= 0 THEN 1 ELSE 2 * Pow2(n - 1)

\* const isRateLimit = err?.message?.includes("429") || err?.status === "RESOURCE_EXHAUSTED"
IsRateLimitAnyStatus(err) == err.has429 \/ err.status \in ErrorStatuses
IsRateLimit(err) == err.has429 \/ err.status = "RESOURCE_EXHAUSTED"

\* if (isRateLimit && i < retries)
ShouldRetryAnyError(err, n, r) == n < r
ShouldRetryOnLast(err, n, r) == IsRateLimit(err) /\ n <= r
ShouldRetry(err, n, r) == IsRateLimit(err) /\ n < r

\* const waitTime = Math.pow(2, i) * 2000 + Math.random() * 1000
WaitTimeLinear(n, jitter) == (n + 1) * BackoffBaseMs + jitter
WaitTime(n, jitter) == Pow2(n) * BackoffBaseMs + jitter

\* for (...; i <= retries; ...)
LoopCond(n, r) == n <= r

\* The value of a response: the data URL of the first inline image, or null.
ResponseValue(resp) == IF resp.inlineData THEN "dataUrl" ELSE NULL

IllusInit ==
  /\ apiKey \in BOOLEAN
  /\ giPc = "idle"
  /\ retries = DefaultRetries
  /\ i = 0
  /\ requests = 0
  /\ outcomes = <<>>
  /\ waits = <<>>
  /\ giResult = [kind |-> "none"]

\* generateIllustration(prompt, r): getGeminiClient, then the first loop test.
GenerateIllustration(r) ==
  /\ giPc = "idle"
  /\ retries' = r
  /\ i' = 0
  /\ outcomes' = <<>>
  /\ waits' = <<>>
  /\ IF ~apiKey
       THEN /\ giPc' = "thrown"
            /\ giResult' = [kind |-> "thrown", err |-> "GEMINI_API_KEY is not set", attempt |-> 0]
            /\ requests' = 0
       ELSE IF LoopCond(0, r)
         THEN /\ giPc' = "awaiting"
              /\ requests' = 1
              /\ giResult' = [kind |-> "none"]
         ELSE /\ giPc' = "returned"
              /\ requests' = 0
              /\ giResult' = [kind |-> "returned", value |-> NULL, afterLoop |-> TRUE]
  /\ UNCHANGED apiKey
  /\ UNCHANGED outsideIllus

\* The awaited generateContent resolves with a response: return inside the try.
RequestSucceeds(resp) ==
  /\ giPc = "awaiting"
  /\ outcomes' = Append(outcomes, resp)
  /\ giPc' = "returned"
  /\ giResult' = [kind |-> "returned", value |-> ResponseValue(resp), afterLoop |-> FALSE]
  /\ UNCHANGED <<apiKey, retries, i, requests, waits>>
  /\ UNCHANGED outsideIllus

\* The awaited generateContent rejects: the catch block.
RequestFails(err, jitter) ==
  /\ giPc = "awaiting"
  /\ outcomes' = Append(outcomes, err)
  /\ IF ShouldRetry(err, i, retries)
       THEN /\ waits' = Append(waits, WaitTime(i, jitter))
            /\ giPc' = "sleeping"
            /\ UNCHANGED giResult
       ELSE /\ giPc' = "thrown"
            /\ giResult' = [kind |-> "thrown", err |-> err, attempt |-> requests]
            /\ UNCHANGED waits
  /\ UNCHANGED <<apiKey, retries, i, requests>>
  /\ UNCHANGED outsideIllus

\* sleep(waitTime) resolves; continue: i++, the loop test, the next request.
SleepDone ==
  /\ giPc = "sleeping"
  /\ i' = i + 1
  /\ IF LoopCond(i + 1, retries)
       THEN /\ giPc' = "awaiting"
            /\ requests' = requests + 1
            /\ UNCHANGED giResult
       ELSE /\ giPc' = "returned"
            /\ giResult' = [kind |-> "returned", value |-> NULL, afterLoop |-> TRUE]
            /\ UNCHANGED requests
  /\ UNCHANGED <<apiKey, retries, outcomes, waits>>
  /\ UNCHANGED outsideIllus

\* The caller has taken the result; the next invocation can start.
IllusFinish ==
  /\ giPc \in {"returned", "thrown"}
  /\ giPc' = "idle"
  /\ UNCHANGED <<apiKey, retries, i, requests, outcomes, waits, giResult>>
  /\ UNCHANGED outsideIllus

IllusNext ==
  \/ \E r \in (-1)..MaxRetries : GenerateIllustration(r)
  \/ \E resp \in ApiResponses : RequestSucceeds(resp)
  \/ \E err \in ApiErrors, jitter \in JitterSamples : RequestFails(err, jitter)
  \/ SleepDone
  \/ IllusFinish


\* ------------------------------------------------------------------------
\* Properties of generateIllustration
\* ------------------------------------------------------------------------

\* An outcome that is an error with "429" in its message or status RESOURCE_EXHAUSTED.
RateLimited(o) == o.kind = "error" /\ (o.has429 \/ o.status = "RESOURCE_EXHAUSTED")

AllRateLimited == \A k \in 1..Len(outcomes) : RateLimited(outcomes[k])

\* C1: an invocation issues at most retries+1 requests (at most 4 with the
\* default retries = 3), and every request after the first follows a request
\* that failed with a rate-limit error.
C1_AtMostRetriesPlusOneRequests ==
  /\ requests <= retries + 1
  /\ (retries = DefaultRetries => requests <= 4)
  /\ \A k \in 1..Len(outcomes) : k < requests => RateLimited(outcomes[k])

C1_Witness ==
  /\ retries = DefaultRetries
  /\ requests = 4
  /\ giPc = "thrown"
  /\ AllRateLimited

\* C2: the wait after the rate-limited attempt n (0-based) is at least
\* 2000*2^n and less than 2000*2^n + 1000 ms, each wait is longer than the one
\* before it, the base waits are 2000, 4000, 8000 with retries = 3, and request
\* number n+2 is issued only after that wait.
C2_ExponentialBackoff ==
  /\ \A k \in 1..Len(waits) :
       /\ waits[k] >= 2000 * Pow2(k - 1)
       /\ waits[k] < 2000 * Pow2(k - 1) + 1000
       /\ (k > 1 => waits[k] > waits[k - 1])
       /\ (retries = DefaultRetries =>
             (waits[k] \div 1000) * 1000 = <<2000, 4000, 8000>>[k])
  /\ Len(waits) <= (IF retries < 0 THEN 0 ELSE retries)
  /\ requests <= Len(waits) + 1
  /\ (giPc = "awaiting" => requests = Len(waits) + 1)

C2_Witness ==
  /\ retries = DefaultRetries
  /\ giPc = "awaiting"
  /\ Len(waits) = 3
  /\ requests = 4

\* C3: an error that is not a rate-limit error is thrown to the caller on the
\* attempt where it occurs: it is the last outcome, no wait follows it and no
\* further request is issued, whatever the attempt number.
C3_OtherErrorsRethrown ==
  \A k \in 1..Len(outcomes) :
    (outcomes[k].kind = "error" /\ ~RateLimited(outcomes[k])) =>
      /\ k = Len(outcomes)
      /\ giPc \in {"thrown", "idle"}
      /\ giResult = [kind |-> "thrown", err |-> outcomes[k], attempt |-> k]
      /\ requests = k
      /\ Len(waits) = k - 1

C3_Witness ==
  /\ giPc = "thrown"
  /\ requests = 3
  /\ Len(outcomes) = 3
  /\ retries = DefaultRetries
  /\ ~RateLimited(outcomes[3])

\* C4: when every attempt is rate-limited the error of attempt retries+1 is
\* thrown; null is returned only for a response without inline image data,
\* and the return null after the loop is not reached for retries >= 0.
C4_ExhaustedRetriesThrow ==
  /\ (retries >= 0 /\ Len(outcomes) = retries + 1 /\ AllRateLimited) =>
       /\ giPc \in {"thrown", "idle"}
       /\ giResult = [kind |-> "thrown", err |-> outcomes[retries + 1],
                      attempt |-> retries + 1]
  /\ (giResult.kind = "returned" /\ retries >= 0) =>
       /\ ~giResult.afterLoop
       /\ Len(outcomes) >= 1
       /\ outcomes[Len(outcomes)].kind = "response"
       /\ (giResult.value = NULL <=> ~outcomes[Len(outcomes)].inlineData)

C4_Witness ==
  /\ retries = DefaultRetries
  /\ giPc = "thrown"
  /\ Len(outcomes) = 4
  /\ AllRateLimited
  /\ giResult.attempt = 4
\* ========================================================================
\* Part 2: App, useStore and StoryWizard
\*         (src/unnamed/part_003, src/unnamed/part_000)
\* ========================================================================

\* Bounds: book rows in the backend, fetchBooks calls in flight, story pages.
MaxBooks == 1
MaxFetch == 1
MaxStoryPages == 2

InitialStep == 1
InitialPages == 8
SliderMin == 5
SliderMax == 15

Users == {"u1"}
Views == {"dashboard", "wizard", "preview", "settings"}
Themes == {"", "naga"}
CharacterNames == {"", "Budi"}

\* The slider offers every integer from min to max; the model moves it to
\* the two ends and back to the initial value.
SliderValues == {SliderMin, InitialPages, SliderMax}

InitialFormData == [theme |-> "", characterName |-> "", pages |-> InitialPages]

\* if (!user) return <Login />; otherwise the component selected by view.
RenderAlwaysView(u, v) == v
Render(u, v) == IF u = NULL THEN "login" ELSE v

\* StoryWizard keeps its state while it stays rendered; a wizard that is not
\* rendered has no state, and mounting it starts from useState(1) and the
\* initial formData.
Mount(u, v) ==
  /\ screen' = Render(u, v)
  /\ IF Render(u, v) = "wizard" /\ screen = "wizard"
       THEN UNCHANGED <<step, formData>>
       ELSE step' = InitialStep /\ formData' = InitialFormData

\* What generateStory resolves with: JSON.parse(response.text || "{}"). A
\* story is its title and its number of pages: none, one or MaxStoryPages.
NoStory == [title |-> "", pages |-> 0]
StoryDatas == {NoStory} \cup [title : {"Naga"}, pages : {0, 1, MaxStoryPages}]

\* currentBook: null is the record without a book id.
NoBookId == 0
NoBook == [id |-> NoBookId]

NewGen == [pc |-> "new", log |-> <<>>, userId |-> NULL,
           storyData |-> NoStory, book |-> NoBookId, coverUrl |-> NULL, outcome |-> "none"]

AppInit ==
  /\ user = NULL
  /\ view = "dashboard"
  /\ screen = "login"
  /\ myBooks = <<>>
  /\ currentBook = NoBook
  /\ isLoading = FALSE
  /\ error = NULL
  /\ fetching = 0
  /\ step = InitialStep
  /\ formData = InitialFormData
  /\ gen = NewGen
  /\ books = <<>>
  /\ pageRows = {}

\* setUser(u) from Login or the auth listener; the effect on [user] calls
\* fetchBooks, which sets isLoading before its await.
SetUser(u) ==
  /\ fetching < MaxFetch
  /\ user' = u
  /\ fetching' = fetching + 1
  /\ isLoading' = TRUE
  /\ view' = view
  /\ Mount(u, view)
  /\ UNCHANGED <<myBooks, currentBook, error, genVars>>
  /\ UNCHANGED outsideApp

\* handleLogout: signOut, then setUser(null).
HandleLogout ==
  /\ screen # "login"
  /\ user' = NULL
  /\ view' = view
  /\ Mount(NULL, view)
  /\ UNCHANGED <<storeVars, genVars>>
  /\ UNCHANGED outsideApp

\* select('*, pages (*)'): every book row with its page rows, as stored.
PagesOfBook(bookId) ==
  LET rows == {p \in pageRows : p.book_id = bookId}
  IN [n \in 1..Cardinality(rows) |-> CHOOSE p \in rows : p.page_number = n]

BookOfRow(row) ==
  [id |-> row.id, user_id |-> row.user_id, title |-> row.title, cover_url |-> row.cover_url,
   pages |-> PagesOfBook(row.id)]

\* .order('created_at', { ascending: false })
Reverse(seq) == [n \in 1..Len(seq) |-> seq[Len(seq) + 1 - n]]

\* fetchBooks after its await: set myBooks or error, finally isLoading false.
FetchBooksDone(ok) ==
  /\ fetching > 0
  /\ fetching' = fetching - 1
  /\ IF ok
       THEN /\ myBooks' = Reverse([n \in 1..Len(books) |-> BookOfRow(books[n])])
            /\ UNCHANGED error
       ELSE /\ error' = "fetchBooks failed"
            /\ UNCHANGED myBooks
  /\ isLoading' = FALSE
  /\ UNCHANGED <<navVars, currentBook, genVars>>
  /\ UNCHANGED outsideApp

\* The sidebar buttons and the dashboard's create buttons: setView(v).
SetView(v) ==
  /\ screen # "login"
  /\ v \in {"dashboard", "wizard", "settings"}
  /\ view' = v
  /\ user' = user
  /\ Mount(user, v)
  /\ UNCHANGED <<storeVars, genVars>>
  /\ UNCHANGED outsideApp

\* A book card of the dashboard: setCurrentBook(book); setView('preview').
OpenBook(n) ==
  /\ screen = "dashboard"
  /\ n \in 1..Len(myBooks)
  /\ currentBook' = myBooks[n]
  /\ view' = "preview"
  /\ user' = user
  /\ Mount(user, "preview")
  /\ UNCHANGED <<myBooks, isLoading, error, fetching, genVars>>
  /\ UNCHANGED outsideApp

\* ------------------------------------------------------------------------
\* StoryWizard: the three-step form (src/unnamed/part_000)
\* ------------------------------------------------------------------------

\* Step 1: the theme textarea and the character name input.
SetTheme(t) ==
  /\ screen = "wizard" /\ step = 1
  /\ formData' = [formData EXCEPT !.theme = t]
  /\ UNCHANGED <<user, view, screen, step, storeVars, genVars>>
  /\ UNCHANGED outsideApp

SetCharacterName(c) ==
  /\ screen = "wizard" /\ step = 1
  /\ formData' = [formData EXCEPT !.characterName = c]
  /\ UNCHANGED <<user, view, screen, step, storeVars, genVars>>
  /\ UNCHANGED outsideApp

\* Step 3: the page count slider (min 5, max 15).
SetPages(n) ==
  /\ screen = "wizard" /\ step = 3
  /\ formData' = [formData EXCEPT !.pages = n]
  /\ UNCHANGED <<user, view, screen, step, storeVars, genVars>>
  /\ UNCHANGED outsideApp

\* The Next button is rendered on steps 1 and 2; on step 1 it is disabled
\* while the theme or the character name is empty.
NextEnabledAnyStep(st, fd) == TRUE
NextEnabledEmptyFields(st, fd) == st \in {1, 2}
NextEnabled(st, fd) ==
  \/ st = 1 /\ fd.theme # "" /\ fd.characterName # ""
  \/ st = 2

\* The Back button is rendered on steps 2 and 3.
BackEnabled(st) == st \in {2, 3}

\* handleNext = () => setStep(s => s + 1)
HandleNext ==
  /\ screen = "wizard"
  /\ NextEnabled(step, formData)
  /\ step' = step + 1
  /\ UNCHANGED <<user, view, screen, formData, storeVars, genVars>>
  /\ UNCHANGED outsideApp

\* handleBack = () => setStep(s => s - 1)
HandleBack ==
  /\ screen = "wizard"
  /\ BackEnabled(step)
  /\ step' = step - 1
  /\ UNCHANGED <<user, view, screen, formData, storeVars, genVars>>
  /\ UNCHANGED outsideApp

\* ------------------------------------------------------------------------
\* StoryWizard.handleGenerate (src/unnamed/part_000, lines 25-118)
\* One invocation is followed at a time: gen holds its position, its locals
\* and the steps it has taken.
\* ------------------------------------------------------------------------

\* The Generate button is rendered on step 3 with disabled={isLoading}.
GenerateEnabledAnyStep(st, loading) == ~loading
GenerateEnabled(st, loading) == st = 3 /\ ~loading

\* pagesToInsert = storyData.pages.map(p => ({ book_id: book.id, ... }))
PagesToInsertOtherBook(storyData, bookId) ==
  {[book_id |-> bookId + 1, page_number |-> n] : n \in 1..storyData.pages}
PagesToInsert(storyData, bookId) ==
  {[book_id |-> bookId, page_number |-> n] : n \in 1..storyData.pages}

\* .insert(pagesToInsert).select(): the backend gives every row an id.
InsertedPages(rows) ==
  {[id |-> <<r.book_id, r.page_number>>, book_id |-> r.book_id,
    page_number |-> r.page_number] : r \in rows}

\* fullBook, as passed to setCurrentBook: the pages are the inserted rows.
FullBook(bookId, title, coverUrl, rows) ==
  [id |-> bookId, title |-> title, coverUrl |-> coverUrl,
   pages |-> [n \in 1..Cardinality(rows) |->
                LET p == CHOOSE r \in rows : r.page_number = n
                IN [id |-> p.id, pageNumber |-> p.page_number,
                    illustrationUrl |-> NULL, narrationUrl |-> NULL]]]

\* catch (err) { setError(err.message || ...) } finally { setLoading(false) }
Fail(events, msg) ==
  /\ gen' = [gen EXCEPT !.pc = "done", !.outcome = "error", !.log = gen.log \o events]
  /\ error' = msg
  /\ isLoading' = FALSE

\* if (!user) { setError(...); return; }
SignedInAlways(u) == TRUE
SignedIn(u) == u # NULL

\* Click on Generate: the guard on user, setLoading(true), setError(null) and
\* the call of generateStory. Without a user the invocation ends at once.
HandleGenerate ==
  /\ screen = "wizard"
  /\ GenerateEnabled(step, isLoading)
  /\ gen.pc \in {"new", "done"}
  /\ Len(books) < MaxBooks
  /\ IF ~SignedIn(user)
       THEN /\ error' = "Silakan login terlebih dahulu."
            /\ gen' = [NewGen EXCEPT !.pc = "done", !.outcome = "noUser"]
            /\ UNCHANGED isLoading
       ELSE /\ isLoading' = TRUE
            /\ error' = NULL
            /\ gen' = [NewGen EXCEPT !.pc = "story", !.log = <<"generateStory">>,
                                     !.userId = user]
  /\ UNCHANGED <<navVars, myBooks, currentBook, fetching, books, pageRows>>
  /\ UNCHANGED outsideApp

\* generateStory throws (no API key, a failed request, unparsable JSON).
GenerateStoryThrows ==
  /\ gen.pc = "story"
  /\ Fail(<<"generateStory.threw">>, "generateStory failed")
  /\ UNCHANGED <<navVars, myBooks, currentBook, fetching, books, pageRows>>
  /\ UNCHANGED outsideApp

\* generateStory resolves with storyData; without a title the handler throws,
\* otherwise it inserts the book row.
GenerateStoryDone(res) ==
  /\ gen.pc = "story"
  /\ IF res.title = ""
       THEN Fail(<<"generateStory.done">>, "Gagal mendapatkan data cerita dari AI.")
       ELSE /\ gen' = [gen EXCEPT !.pc = "bookInsert", !.storyData = res,
                                  !.log = gen.log \o <<"generateStory.done", "insertBook">>]
            /\ UNCHANGED <<error, isLoading>>
  /\ UNCHANGED <<navVars, myBooks, currentBook, fetching, books, pageRows>>
  /\ UNCHANGED outsideApp

\* The insert into books settles: bookError throws; otherwise the row exists
\* and the cover illustration is requested.
InsertBookDone(ok) ==
  /\ gen.pc = "bookInsert"
  /\ IF ~ok
       THEN /\ Fail(<<"insertBook.failed">>, "Gagal menyimpan buku")
            /\ UNCHANGED books
       ELSE /\ books' = Append(books, [id |-> Len(books) + 1, user_id |-> gen.userId,
                                       title |-> gen.storyData.title, cover_url |-> NULL])
            /\ gen' = [gen EXCEPT !.pc = "cover", !.book = Len(books) + 1,
                                  !.log = gen.log \o <<"insertBook.done", "generateIllustration">>]
            /\ UNCHANGED <<error, isLoading>>
  /\ UNCHANGED <<navVars, myBooks, currentBook, fetching, pageRows>>
  /\ UNCHANGED outsideApp

\* generateIllustration(coverPrompt) settles with a URL, null or an error; a
\* URL is written to the book row, anything else goes on to the pages.
HasCoverUrlAlways(res) == TRUE
HasCoverUrl(res) == res = "dataUrl"

CoverDone(res) ==
  /\ gen.pc = "cover"
  /\ IF HasCoverUrl(res)
       THEN gen' = [gen EXCEPT !.pc = "coverUpdate", !.coverUrl = res,
                               !.log = gen.log \o <<"generateIllustration.done", "updateCover">>]
       ELSE gen' = [gen EXCEPT !.pc = "pagesInsert",
                               !.log = gen.log \o
                                 <<IF res = "throw" THEN "generateIllustration.threw"
                                                    ELSE "generateIllustration.done",
                                   "insertPages">>]
  /\ UNCHANGED <<navVars, storeVars, books, pageRows>>
  /\ UNCHANGED outsideApp

\* The update of cover_url settles (its result is not inspected).
CoverUpdateDone(ok) ==
  /\ gen.pc = "coverUpdate"
  /\ books' = [n \in 1..Len(books) |->
                 IF ok /\ books[n].id = gen.book
                   THEN [books[n] EXCEPT !.cover_url = gen.coverUrl]
                   ELSE books[n]]
  /\ gen' = [gen EXCEPT !.pc = "pagesInsert",
                        !.log = gen.log \o <<"updateCover.done", "insertPages">>]
  /\ UNCHANGED <<navVars, storeVars, pageRows>>
  /\ UNCHANGED outsideApp

\* The insert into pages settles: pagesError throws; otherwise
\* setCurrentBook(fullBook), onComplete() and, finally, setLoading(false).
InsertPagesDone(ok) ==
  /\ gen.pc = "pagesInsert"
  /\ IF ~ok
       THEN /\ Fail(<<"insertPages.failed">>, "Gagal menyimpan halaman")
            /\ UNCHANGED <<pageRows, currentBook, navVars>>
       ELSE /\ pageRows' = pageRows \cup InsertedPages(PagesToInsert(gen.storyData, gen.book))
            /\ currentBook' = FullBook(gen.book, gen.storyData.title, gen.coverUrl,
                                       InsertedPages(PagesToInsert(gen.storyData, gen.book)))
            /\ view' = "preview"
            /\ user' = user
            /\ Mount(user, "preview")
            /\ isLoading' = FALSE
            /\ gen' = [gen EXCEPT !.pc = "done", !.outcome = "ok",
                                  !.log = gen.log \o
                                    <<"insertPages.done", "setCurrentBook", "onComplete">>]
            /\ UNCHANGED error
  /\ UNCHANGED <<myBooks, fetching, books>>
  /\ UNCHANGED outsideApp

AppNext ==
  \/ \E u \in Users : SetUser(u)
  \/ HandleLogout
  \/ \E ok \in BOOLEAN : FetchBooksDone(ok)
  \/ \E v \in Views : SetView(v)
  \/ \E n \in 1..MaxBooks : OpenBook(n)
  \/ \E t \in Themes : SetTheme(t)
  \/ \E c \in CharacterNames : SetCharacterName(c)
  \/ \E n \in SliderValues : SetPages(n)
  \/ HandleNext
  \/ HandleBack
  \/ HandleGenerate
  \/ GenerateStoryThrows
  \/ \E res \in StoryDatas : GenerateStoryDone(res)
  \/ \E ok \in BOOLEAN : InsertBookDone(ok)
  \/ \E res \in {"dataUrl", NULL, "throw"} : CoverDone(res)
  \/ \E ok \in BOOLEAN : CoverUpdateDone(ok)
  \/ \E ok \in BOOLEAN : InsertPagesDone(ok)

\* handleGenerate on its own: StoryWizard mounted on step 3 with a complete
\* form, over a store with or without a signed-in user and with or without an
\* earlier error.
GenerateInit ==
  /\ user \in Users \cup {NULL}
  /\ view = "wizard"
  /\ screen = "wizard"
  /\ myBooks = <<>>
  /\ currentBook = NoBook
  /\ isLoading = FALSE
  /\ error \in {NULL, "fetchBooks failed"}
  /\ fetching = 0
  /\ step = 3
  /\ formData \in [theme : Themes \ {""}, characterName : CharacterNames \ {""},
                    pages : SliderValues]
  /\ gen = NewGen
  /\ books = <<>>
  /\ pageRows = {}

GenerateNext ==
  \/ HandleGenerate
  \/ GenerateStoryThrows
  \/ \E res \in StoryDatas : GenerateStoryDone(res)
  \/ \E ok \in BOOLEAN : InsertBookDone(ok)
  \/ \E res \in {"dataUrl", NULL, "throw"} : CoverDone(res)
  \/ \E ok \in BOOLEAN : CoverUpdateDone(ok)
  \/ \E ok \in BOOLEAN : InsertPagesDone(ok)
\* ------------------------------------------------------------------------
\* Properties of App and StoryWizard
\* ------------------------------------------------------------------------

IsPrefix(s, t) == Len(s) <= Len(t) /\ \A n \in 1..Len(s) : s[n] = t[n]

\* The steps of a successful handleGenerate, each with its completion; the
\* cover_url update is there only when a cover URL was obtained.
StepsBeforeCover ==
  <<"generateStory", "generateStory.done", "insertBook", "insertBook.done",
    "generateIllustration">>
StepsAfterCover ==
  <<"insertPages", "insertPages.done", "setCurrentBook", "onComplete">>
SuccessLogs ==
  { StepsBeforeCover \o <<"generateIllustration.done", "updateCover", "updateCover.done">>
      \o StepsAfterCover,
    StepsBeforeCover \o <<"generateIllustration.done">> \o StepsAfterCover,
    StepsBeforeCover \o <<"generateIllustration.threw">> \o StepsAfterCover }

FailureEvents ==
  {"generateStory.threw", "generateStory.done", "insertBook.failed", "insertPages.failed"}

\* C5: handleGenerate takes its steps in the order generateStory, book insert,
\* cover illustration (and cover_url update), pages insert, setCurrentBook,
\* onComplete, each step starting after the one before it has finished; every
\* page row carries the id of an inserted book row, and a successful
\* invocation has inserted the pages of its story under the id its book
\* insert returned.
C5_GenerateStepsInOrder ==
  /\ \/ \E s \in SuccessLogs : IsPrefix(gen.log, s)
     \/ /\ gen.outcome = "error"
        /\ gen.log[Len(gen.log)] \in FailureEvents
        /\ \E s \in SuccessLogs : IsPrefix(SubSeq(gen.log, 1, Len(gen.log) - 1), s)
  /\ gen.outcome = "ok" => gen.log \in SuccessLogs
  /\ \A r \in pageRows : \E n \in 1..Len(books) : books[n].id = r.book_id
  /\ \A r \in pageRows : r.book_id = gen.book => gen.pc = "done"
  /\ gen.outcome = "ok" =>
       /\ gen.book # NoBookId
       /\ {r.page_number : r \in {q \in pageRows : q.book_id = gen.book}}
            = 1..gen.storyData.pages

C5_Witness ==
  /\ gen.outcome = "ok"
  /\ gen.coverUrl = "dataUrl"
  /\ gen.storyData.pages = 2
  /\ Cardinality(pageRows) = 2
  /\ view = "preview"

\* C9: while the store's user is null App renders only the Login screen; the
\* dashboard, the wizard, the preview and the settings are rendered only with
\* a user, whatever the value of view.
C9_LoginGate ==
  /\ user = NULL => screen = "login"
  /\ screen \in Views => user # NULL

C9_Witness ==
  /\ user = NULL
  /\ view = "wizard"
  /\ screen = "login"
  /\ gen.pc = "story"

C12_FailureHandling ==
  [][ /\ (gen' # gen /\ gen'.outcome # "ok")
           => (currentBook' = currentBook /\ view' = view /\ screen' = screen)
      /\ (gen.pc # "done" /\ gen'.pc = "done" /\ gen'.outcome = "error")
           => (error' # NULL /\ isLoading' = FALSE)
      /\ (gen' # gen /\ gen'.outcome = "noUser")
           => /\ error' # NULL
              /\ isLoading' = isLoading /\ isLoading' = FALSE
              /\ gen'.log = <<>>
              /\ books' = books /\ pageRows' = pageRows
      /\ (gen.pc # "story" /\ gen'.pc = "story") => user # NULL
      /\ (gen' # gen /\ user = NULL /\ gen.pc \in {"new", "done"})
           => gen'.outcome = "noUser" ]_vars

C12_Witness ==
  /\ gen.pc = "done"
  /\ gen.outcome = "error"
  /\ gen.log[Len(gen.log)] = "insertPages.failed"
  /\ Len(books) = 1
  /\ error # NULL
  /\ ~isLoading
  /\ currentBook = NoBook
  /\ view = "wizard"

\* C13: a cover request that throws or resolves with null does not end the
\* invocation and sets no error: the pages insert follows, and a success
\* then sets a currentBook without cover, with the story's pages inserted,
\* and switches to the preview; cover_url is updated only after a cover URL
\* was obtained, and only on the book of the invocation.
C13_CoverOptional ==
  /\ [](gen.pc = "coverUpdate" => gen.coverUrl = "dataUrl")
  /\ [][ /\ (gen.pc = "cover" /\ gen' # gen)
              => /\ gen'.outcome = "none"
                 /\ error' = error
                 /\ gen'.pc = IF gen'.coverUrl = NULL THEN "pagesInsert" ELSE "coverUpdate"
         /\ (gen.pc = "pagesInsert" /\ gen'.outcome = "ok" /\ gen.coverUrl = NULL)
              => /\ currentBook'.id = gen.book
                 /\ currentBook'.coverUrl = NULL
                 /\ Len(currentBook'.pages) = gen.storyData.pages
                 /\ {r.page_number : r \in {q \in pageRows' : q.book_id = gen.book}}
                      = 1..gen.storyData.pages
                 /\ view' = "preview"
                 /\ error' = error
         /\ (books' # books /\ Len(books') = Len(books))
              => /\ gen.pc = "coverUpdate"
                 /\ \A n \in 1..Len(books) :
                      books'[n] # books[n]
                        => (books[n].id = gen.book /\ books'[n].cover_url = "dataUrl") ]_vars

C13_Witness ==
  /\ gen.outcome = "ok"
  /\ gen.coverUrl = NULL
  /\ gen.log[6] = "generateIllustration.threw"
  /\ currentBook.id = gen.book
  /\ currentBook.coverUrl = NULL
  /\ Len(currentBook.pages) = 2
  /\ Cardinality(pageRows) = 2
  /\ books[1].cover_url = NULL
  /\ error = NULL
  /\ view = "preview"

\* C14: while a handleGenerate invocation is in flight isLoading is true, so
\* the Generate button of a mounted wizard is disabled for as long.
C14_SingleGeneration ==
  gen.pc \notin {"new", "done"}
    => /\ isLoading
       /\ ~(screen = "wizard" /\ GenerateEnabled(step, isLoading))

\* C15: once handleGenerate has finished, the book row it inserted (if any)
\* has all the page rows of its story.
C15_AllOrNothing ==
  gen.pc = "done" =>
    \A n \in 1..Len(books) :
      books[n].id = gen.book
        => {r.page_number : r \in {q \in pageRows : q.book_id = gen.book}}
             = 1..gen.storyData.pages

\* C16: after a successful handleGenerate the new book is in myBooks.
C16_NewBookInMyBooks ==
  gen.outcome = "ok" => \E n \in 1..Len(myBooks) : myBooks[n].id = gen.book
\* ========================================================================
\* Part 3: BookPreview (src/unnamed/part_001) and useStore.updatePage
\*         One mounted BookPreview on the current book.
\* ========================================================================

\* Bounds: pages of the book under preview, handleGenerateImage calls in flight.
MaxPreviewPages == 3
MaxImgs == 1

PreviewTitle == "Naga"

\* The pages of a book of n pages, as handleGenerate builds them; the
\* illustration of page k is there iff k is in illustrated.
PreviewPage(bookId, k, illustrated) ==
  [id |-> <<bookId, k>>, pageNumber |-> k,
   illustrationUrl |-> IF k \in illustrated THEN "dataUrl" ELSE NULL,
   narrationUrl |-> NULL]

\* No handler of BookPreview reads coverUrl (the cover is always the first
\* page of the reader and of the PDF), so the books differ in their pages only.
PreviewBooks ==
  { [id |-> 1, title |-> PreviewTitle, coverUrl |-> "dataUrl",
     pages |-> [k \in 1..n |-> PreviewPage(1, k, ill)]] :
      n \in 0..MaxPreviewPages, ill \in SUBSET (1..MaxPreviewPages) }

\* updatePage(pageId, updates): { ...p, ...updates } for the page with that id.
MergePage(p, updates) ==
  [f \in DOMAIN p \cup DOMAIN updates |-> IF f \in DOMAIN updates THEN updates[f] ELSE p[f]]

UpdatePageStale(book, pageId, updates) ==
  IF book.id = NoBookId THEN book
  ELSE LET pages == IF batch.pc = "idle" THEN book.pages ELSE batch.snapshot
       IN [book EXCEPT !.pages = [n \in DOMAIN pages |->
                                    IF pages[n].id = pageId
                                      THEN MergePage(pages[n], updates)
                                      ELSE pages[n]]]
UpdatePageAll(book, pageId, updates) ==
  IF book.id = NoBookId THEN book
  ELSE [book EXCEPT !.pages = [n \in DOMAIN book.pages |-> MergePage(book.pages[n], updates)]]
UpdatePage(book, pageId, updates) ==
  IF book.id = NoBookId THEN book
  ELSE [book EXCEPT !.pages = [n \in DOMAIN book.pages |->
                                 IF book.pages[n].id = pageId
                                   THEN MergePage(book.pages[n], updates)
                                   ELSE book.pages[n]]]

\* A call of updatePage from any caller, on any store: set() replaces
\* currentBook and keeps the rest of the store.
NoCall == [n |-> 0, pageId |-> <<0, 0>>, updates |-> <<>>]
PageIds == {<<1, k>> : k \in 1..(MaxPreviewPages + 1)}
PageUpdates == {[illustrationUrl |-> "dataUrl"], [narrationUrl |-> "audioUrl"]}

StoreUpdatePage(pageId, updates) ==
  /\ currentBook' = UpdatePage(currentBook, pageId, updates)
  /\ updCall' = [n |-> (updCall.n + 1) % 2, pageId |-> pageId, updates |-> updates]
  /\ UNCHANGED <<illusVars, navVars, genVars, myBooks, isLoading, error, fetching, outsideStory>>
  /\ UNCHANGED <<currentPage, lastNav, isGeneratingImg, imgs, isBatchGenerating,
                 batchProgress, batch, pdf, isNarrating, narr>>

UpdatePageInit ==
  /\ user \in Users
  /\ view = "preview"
  /\ screen = "preview"
  /\ currentBook \in PreviewBooks \cup {NoBook}
  /\ myBooks \in {m \in {<<>>, <<currentBook>>} : m = <<>> \/ currentBook.id # NoBookId}
  /\ isLoading \in BOOLEAN
  /\ error \in {NULL, "fetchBooks failed"}
  /\ fetching = 0
  /\ step = InitialStep
  /\ formData = InitialFormData
  /\ gen = NewGen
  /\ books = <<>>
  /\ pageRows = {}

UpdatePageNext == \E pageId \in PageIds, updates \in PageUpdates : StoreUpdatePage(pageId, updates)

\* const totalPages = currentBook.pages.length
TotalPages == Len(currentBook.pages)

\* if (currentPage < totalPages) setCurrentPage(currentPage + 1)
NextPageUnguarded(cp, total) == cp + 1
NextPage(cp, total) == IF cp < total THEN cp + 1 ELSE cp

\* if (currentPage > 0) setCurrentPage(currentPage - 1)
PrevPage(cp) == IF cp > 0 THEN cp - 1 ELSE cp

NoNarration == [pc |-> "idle", pageId |-> <<0, 0>>, requests |-> 0, url |-> NULL, played |-> FALSE]

NoNav == [handler |-> "none", from |-> 0]

PreviewInit ==
  /\ user = "u1"
  /\ view = "preview"
  /\ screen = "preview"
  /\ myBooks = <<>>
  /\ currentBook \in PreviewBooks
  /\ isLoading = FALSE
  /\ error = NULL
  /\ fetching = 0
  /\ step = InitialStep
  /\ formData = InitialFormData
  /\ gen = NewGen
  /\ books = <<>>
  /\ pageRows = {}
  /\ currentPage = 0
  /\ lastNav = NoNav
  /\ isGeneratingImg = FALSE
  /\ imgs = <<>>
  /\ isBatchGenerating = FALSE
  /\ batchProgress = 0
  /\ batch = [pc |-> "idle"]
  /\ pdf = [pc |-> "idle"]
  /\ isNarrating = FALSE
  /\ narr = NoNarration
  /\ updCall = NoCall

\* handleNext, handlePrev and the thumbnails (cover: 0, page i: i + 1).
\* The arrow buttons are disabled on the cover and on the last page; the
\* handlers carry their own guards and the model calls them on every page.
PreviewHandleNext ==
  /\ screen = "preview"
  /\ currentPage' = NextPage(currentPage, TotalPages)
  /\ lastNav' = [handler |-> "next", from |-> currentPage]
  /\ UNCHANGED <<currentBook, isLoading, isGeneratingImg, imgs, isBatchGenerating,
                 batchProgress, batch, pdf>>
  /\ UNCHANGED outsidePreview

PreviewHandlePrev ==
  /\ screen = "preview"
  /\ currentPage' = PrevPage(currentPage)
  /\ lastNav' = [handler |-> "prev", from |-> currentPage]
  /\ UNCHANGED <<currentBook, isLoading, isGeneratingImg, imgs, isBatchGenerating,
                 batchProgress, batch, pdf>>
  /\ UNCHANGED outsidePreview

ThumbnailClick(k) ==
  /\ screen = "preview"
  /\ k \in 0..TotalPages
  /\ currentPage' = k
  /\ lastNav' = [handler |-> "thumbnail", from |-> k]
  /\ UNCHANGED <<currentBook, isLoading, isGeneratingImg, imgs, isBatchGenerating,
                 batchProgress, batch, pdf>>
  /\ UNCHANGED outsidePreview

\* handleGenerateImage(currentPage - 1): the button of a page without an
\* illustration is disabled while isGeneratingImg, the refresh button of an
\* illustrated page is not.
HandleGenerateImage ==
  /\ screen = "preview"
  /\ currentPage >= 1
  /\ Len(imgs) < MaxImgs
  /\ (currentBook.pages[currentPage].illustrationUrl = NULL => ~isGeneratingImg)
  /\ imgs' = Append(imgs, currentBook.pages[currentPage].id)
  /\ isGeneratingImg' = TRUE
  /\ UNCHANGED <<currentBook, isLoading, currentPage, lastNav, isBatchGenerating,
                 batchProgress, batch, pdf>>
  /\ UNCHANGED outsidePreview

\* Its generateIllustration settles: updatePage on a URL; finally
\* setIsGeneratingImg(false).
RemoveAt(seq, n) == [m \in 1..(Len(seq) - 1) |-> IF m < n THEN seq[m] ELSE seq[m + 1]]

GenerateImageDone(n, res) ==
  /\ n \in 1..Len(imgs)
  /\ currentBook' = IF res = "dataUrl"
                      THEN UpdatePage(currentBook, imgs[n], [illustrationUrl |-> res])
                      ELSE currentBook
  /\ imgs' = RemoveAt(imgs, n)
  /\ isGeneratingImg' = FALSE
  /\ UNCHANGED <<isLoading, currentPage, lastNav, isBatchGenerating, batchProgress,
                 batch, pdf>>
  /\ UNCHANGED outsidePreview

\* ------------------------------------------------------------------------
\* BookPreview.handleGenerateAllImages (src/unnamed/part_001, lines 22-50)
\* ------------------------------------------------------------------------

\* const pagesToGenerate = currentBook.pages.filter(p => !p.illustrationUrl)
HasNoIllustration(p) == p.illustrationUrl = NULL
PagesToGenerateAll(pages) == pages
PagesToGenerate(pages) == SelectSeq(pages, HasNoIllustration)

\* Math.round((completed / pagesToGenerate.length) * 100)
RoundPercentFloor(k, n) == (100 * k) \div n
RoundPercent(k, n) == (200 * k + n) \div (2 * n)

\* The end of one loop iteration: completed++, setBatchProgress, and either
\* the request for the next page or setIsBatchGenerating(false).
BatchAdvanceStop(b) ==
  /\ batchProgress' = RoundPercent(b.completed + 1, Len(b.todo))
  /\ batch' = [b EXCEPT !.pc = "done", !.completed = b.completed + 1]
  /\ isBatchGenerating' = FALSE
BatchAdvance(b) ==
  /\ batchProgress' = RoundPercent(b.completed + 1, Len(b.todo))
  /\ IF b.idx < Len(b.todo)
       THEN /\ batch' = [b EXCEPT !.pc = "awaiting", !.idx = b.idx + 1,
                                  !.completed = b.completed + 1,
                                  !.requested = Append(b.requested, b.todo[b.idx + 1].id)]
            /\ UNCHANGED isBatchGenerating
       ELSE /\ batch' = [b EXCEPT !.pc = "done", !.completed = b.completed + 1]
            /\ isBatchGenerating' = FALSE

\* Click on the batch button (disabled while isBatchGenerating): the filter,
\* the early return on an empty list, otherwise the first request.
HandleGenerateAllImages ==
  /\ screen = "preview"
  /\ ~isBatchGenerating
  /\ batchProgress' = 0
  /\ LET todo == PagesToGenerate(currentBook.pages)
         b == [pc |-> "done", snapshot |-> currentBook.pages, todo |-> todo, idx |-> 1,
               requested |-> <<>>, settled |-> 0, updated |-> <<>>, completed |-> 0]
     IN IF Len(todo) = 0
          THEN /\ batch' = b
               /\ isBatchGenerating' = FALSE
          ELSE /\ batch' = [b EXCEPT !.pc = "awaiting", !.requested = <<todo[1].id>>]
               /\ isBatchGenerating' = TRUE
  /\ UNCHANGED <<currentBook, isLoading, currentPage, lastNav, isGeneratingImg, imgs, pdf>>
  /\ UNCHANGED outsidePreview

\* generateIllustration for the page settles: updatePage on a URL and the
\* 1000 ms delay; a thrown error is caught and the iteration ends at once.
BatchImageDone(res) ==
  /\ batch.pc = "awaiting"
  /\ LET page == batch.todo[batch.idx]
         settled == [batch EXCEPT !.settled = batch.settled + 1]
     IN IF res = "throw"
          THEN /\ BatchAdvance(settled)
               /\ UNCHANGED currentBook
          ELSE /\ IF res = NULL
                    THEN /\ batch' = [settled EXCEPT !.pc = "delay"]
                         /\ UNCHANGED currentBook
                    ELSE /\ batch' = [settled EXCEPT !.pc = "delay",
                                        !.updated = Append(batch.updated, page.id)]
                         /\ currentBook' = UpdatePage(currentBook, page.id,
                                                      [illustrationUrl |-> res])
               /\ UNCHANGED <<batchProgress, isBatchGenerating>>
  /\ UNCHANGED <<isLoading, currentPage, lastNav, isGeneratingImg, imgs, pdf>>
  /\ UNCHANGED outsidePreview

\* The delay between generations is over.
BatchDelayDone ==
  /\ batch.pc = "delay"
  /\ BatchAdvance(batch)
  /\ UNCHANGED <<currentBook, isLoading, currentPage, lastNav, isGeneratingImg, imgs, pdf>>
  /\ UNCHANGED outsidePreview

\* ------------------------------------------------------------------------
\* BookPreview.exportToPDF (src/unnamed/part_001, lines 98-196)
\* The document is the sequence of its pages, each holding the image put on
\* it; one export is followed at a time.
\* ------------------------------------------------------------------------

\* new jsPDF(...) has one empty page; addPage appends one; addImage draws on
\* the last page.
NewDoc == <<"blank">>
DocAddPageNone(doc) == doc
DocAddPage(doc) == Append(doc, "blank")
DocAddImage(doc, img) == [doc EXCEPT ![Len(doc)] = img]

\* doc.save(`${currentBook.title}.pdf`)
PdfName(title) == <<title, ".pdf">>

\* Click on export: setLoading(true), the document, the hidden container and
\* the rendering of the cover.
ExportToPDF ==
  /\ screen = "preview"
  /\ pdf.pc \in {"idle", "saved", "failed"}
  /\ isLoading' = TRUE
  /\ pdf' = [pc |-> "cover", book |-> currentBook, doc |-> NewDoc, idx |-> 0,
             addPages |-> 0, addImages |-> 0, saved |-> <<>>,
             container |-> TRUE, pageEls |-> 1]
  /\ UNCHANGED <<currentBook, currentPage, lastNav, isGeneratingImg, imgs,
                 isBatchGenerating, batchProgress, batch>>
  /\ UNCHANGED outsidePreview

\* After an image is on the document: the next page of the loop, or
\* doc.save, removeChild(container) and setLoading(false).
ExportContinue(p) ==
  IF p.idx < Len(p.book.pages)
    THEN /\ pdf' = [p EXCEPT !.pc = "page", !.idx = p.idx + 1,
                             !.doc = DocAddPage(p.doc), !.addPages = p.addPages + 1,
                             !.pageEls = 1]
         /\ UNCHANGED isLoading
    ELSE /\ pdf' = [p EXCEPT !.pc = "saved", !.container = FALSE,
                             !.saved = Append(p.saved,
                                              [name |-> PdfName(p.book.title), doc |-> p.doc])]
         /\ isLoading' = FALSE

\* renderPageToCanvas settles for the cover or for page idx: html2canvas
\* resolves (the page element is removed, the image is added) or rejects
\* (catch: alert; finally: setLoading(false)).
RenderDone(ok) ==
  /\ pdf.pc \in {"cover", "page"}
  /\ IF ok
       THEN ExportContinue([pdf EXCEPT
              !.pageEls = 0,
              !.addImages = pdf.addImages + 1,
              !.doc = DocAddImage(pdf.doc, IF pdf.pc = "cover" THEN "cover"
                                           ELSE pdf.book.pages[pdf.idx].id)])
       ELSE /\ pdf' = [pdf EXCEPT !.pc = "failed"]
            /\ isLoading' = FALSE
  /\ UNCHANGED <<currentBook, currentPage, lastNav, isGeneratingImg, imgs,
                 isBatchGenerating, batchProgress, batch>>
  /\ UNCHANGED outsidePreview

\* What generateIllustration settles with for its caller.
IllustrationResults == {"dataUrl", NULL, "throw"}

\* Navigation and illustration generation in the mounted preview.
PreviewNext ==
  \/ PreviewHandleNext
  \/ PreviewHandlePrev
  \/ \E k \in 0..MaxPreviewPages : ThumbnailClick(k)
  \/ HandleGenerateImage
  \/ \E n \in 1..MaxImgs, res \in IllustrationResults : GenerateImageDone(n, res)
  \/ HandleGenerateAllImages
  \/ \E res \in IllustrationResults : BatchImageDone(res)
  \/ BatchDelayDone

\* The export, with illustrations arriving while it runs.
ExportNext ==
  \/ \E k \in 0..MaxPreviewPages : ThumbnailClick(k)
  \/ HandleGenerateImage
  \/ \E n \in 1..MaxImgs, res \in IllustrationResults : GenerateImageDone(n, res)
  \/ ExportToPDF
  \/ \E ok \in BOOLEAN : RenderDone(ok)


\* ------------------------------------------------------------------------
\* BookPreview.handleNarration (src/unnamed/part_001, lines 75-96)
\* ------------------------------------------------------------------------

\* What generateNarration settles with for its caller.
NarrationResults == {"audioUrl", NULL, "throw"}

\* let url = page.narrationUrl; if (!url) { ... }
HasNarrationNever(p) == FALSE
HasNarration(p) == p.narrationUrl # NULL

\* Click on the narration button of the page shown (disabled while
\* isNarrating): a stored URL is played at once; otherwise generateNarration
\* is called.
HandleNarration ==
  /\ screen = "preview"
  /\ currentPage >= 1
  /\ ~isNarrating
  /\ narr.pc \in {"idle", "done"}
  /\ LET page == currentBook.pages[currentPage]
     IN IF HasNarration(page)
          THEN /\ narr' = [pc |-> "done", pageId |-> page.id, requests |-> 0,
                           url |-> page.narrationUrl, played |-> TRUE]
               /\ isNarrating' = FALSE
          ELSE /\ narr' = [pc |-> "awaiting", pageId |-> page.id, requests |-> 1,
                           url |-> NULL, played |-> FALSE]
               /\ isNarrating' = TRUE
  /\ UNCHANGED <<currentBook, isLoading, updCall>>
  /\ UNCHANGED outsideNarration
  /\ UNCHANGED <<illusVars, navVars, genVars, myBooks, error, fetching, outsideStory>>

\* generateNarration settles: a URL is stored with updatePage and played;
\* finally setIsNarrating(false).
NarrationDone(res) ==
  /\ narr.pc = "awaiting"
  /\ IF res = "audioUrl"
       THEN /\ currentBook' = UpdatePage(currentBook, narr.pageId, [narrationUrl |-> res])
            /\ narr' = [narr EXCEPT !.pc = "done", !.url = res, !.played = TRUE]
       ELSE /\ narr' = [narr EXCEPT !.pc = "done"]
            /\ UNCHANGED currentBook
  /\ isNarrating' = FALSE
  /\ UNCHANGED <<isLoading, updCall>>
  /\ UNCHANGED outsideNarration
  /\ UNCHANGED <<illusVars, navVars, genVars, myBooks, error, fetching, outsideStory>>

\* The three generating handlers side by side on one book of at most
\* MaxConcurrentPages pages, none of them illustrated or narrated yet.
MaxConcurrentPages == 2

ConcurrentInit ==
  /\ PreviewInit
  /\ Len(currentBook.pages) <= MaxConcurrentPages
  /\ \A n \in 1..Len(currentBook.pages) : currentBook.pages[n].illustrationUrl = NULL

\* One handleGenerateImage at a time beside the batch and the narration.
ConcurrentGenerateImage ==
  /\ imgs = <<>>
  /\ HandleGenerateImage

ConcurrentNext ==
  \/ \E k \in 0..MaxPreviewPages : ThumbnailClick(k)
  \/ ConcurrentGenerateImage
  \/ \E res \in IllustrationResults : GenerateImageDone(1, res)
  \/ HandleGenerateAllImages
  \/ \E res \in IllustrationResults : BatchImageDone(res)
  \/ BatchDelayDone
  \/ HandleNarration
  \/ \E res \in NarrationResults : NarrationDone(res)
\* ------------------------------------------------------------------------
\* Properties of BookPreview
\* ------------------------------------------------------------------------

\* C6: a successful export saves, exactly once and as "<title>.pdf", a
\* document of n+1 pages for a book of n pages: the cover first, then the
\* story pages in the order of currentBook.pages, with one addPage and one
\* addImage per story page; nothing is saved before that.
C6_ExportAllPages ==
  /\ pdf.pc \in {"cover", "page", "failed"} => pdf.saved = <<>>
  /\ pdf.pc = "saved" =>
       LET n == Len(pdf.book.pages)
       IN /\ Len(currentBook.pages) = n
          /\ Len(pdf.doc) = n + 1
          /\ pdf.doc[1] = "cover"
          /\ \A k \in 1..n : pdf.doc[k + 1] = currentBook.pages[k].id
          /\ pdf.addPages = n
          /\ pdf.addImages = n + 1
          /\ pdf.saved = <<[name |-> <<currentBook.title, ".pdf">>, doc |-> pdf.doc]>>

C6_Witness ==
  /\ pdf.pc = "saved"
  /\ Len(currentBook.pages) = 3
  /\ Len(pdf.doc) = 4
  /\ Len(pdf.saved) = 1

\* C7: currentPage is always between 0 and the number of pages, so every page
\* that is rendered exists; handleNext on the last page and handlePrev on the
\* cover leave currentPage as it is.
C7_CurrentPageInRange ==
  /\ currentPage \in 0..Len(currentBook.pages)
  /\ currentPage >= 1 => currentPage \in DOMAIN currentBook.pages
  /\ (lastNav.handler = "next" /\ lastNav.from = Len(currentBook.pages))
       => currentPage = lastNav.from
  /\ (lastNav.handler = "prev" /\ lastNav.from = 0) => currentPage = 0

C7_Witness ==
  /\ lastNav = [handler |-> "next", from |-> 3]
  /\ Len(currentBook.pages) = 3
  /\ currentPage = 3

\* The ids of the pages without an illustration, in page order.
IdsWithoutIllustration(pages) ==
  LET todo == SelectSeq(pages, HasNoIllustration)
  IN [n \in 1..Len(todo) |-> todo[n].id]

IdsOf(pages) == {pages[n].id : n \in DOMAIN pages}

\* C8: the batch requests an illustration for exactly the pages that had none
\* when it started, in page order, once per page, with at most one request
\* outstanding; pages that had an illustration are neither requested nor
\* updated by it.
C8_BatchSequential ==
  batch.pc # "idle" =>
    LET todoIds == IdsWithoutIllustration(batch.snapshot)
        had == {batch.snapshot[n].id : n \in {m \in DOMAIN batch.snapshot :
                                               batch.snapshot[m].illustrationUrl # NULL}}
    IN /\ Len(batch.requested) <= Len(todoIds)
       /\ batch.requested = SubSeq(todoIds, 1, Len(batch.requested))
       /\ batch.pc = "done" => batch.requested = todoIds
       /\ batch.pc = "awaiting" => Len(batch.requested) = batch.settled + 1
       /\ batch.pc # "awaiting" => Len(batch.requested) = batch.settled
       /\ \A n \in DOMAIN batch.requested : batch.requested[n] \notin had
       /\ \A n \in DOMAIN batch.updated : batch.updated[n] \notin had
       /\ \A n \in DOMAIN batch.updated :
            \E m \in DOMAIN batch.requested : batch.requested[m] = batch.updated[n]
       /\ \A n \in DOMAIN batch.snapshot :
            batch.snapshot[n].illustrationUrl # NULL
              => currentBook.pages[n].illustrationUrl # NULL

C8_Witness ==
  /\ batch.pc = "done"
  /\ Len(batch.snapshot) = 3
  /\ batch.snapshot[2].illustrationUrl # NULL
  /\ batch.requested = <<batch.snapshot[1].id, batch.snapshot[3].id>>
  /\ batch.updated = batch.requested


\* ------------------------------------------------------------------------
\* Properties of useStore.updatePage and of the handlers that call it
\* ------------------------------------------------------------------------

\* C17: a call updatePage(pageId, updates) merges updates into the page of
\* currentBook with that id and changes nothing else: the other pages, the
\* number and order of the pages, the other fields of currentBook, myBooks,
\* user, isLoading and error stay as they were, and nothing changes when
\* currentBook is null or no page has that id.
C17_UpdatePageFrame ==
  [][ updCall' # updCall =>
        LET pageId == updCall'.pageId
            updates == updCall'.updates
        IN /\ <<myBooks', user', isLoading', error'>> = <<myBooks, user, isLoading, error>>
           /\ currentBook.id = NoBookId => currentBook' = currentBook
           /\ currentBook.id # NoBookId =>
                /\ DOMAIN currentBook' = DOMAIN currentBook
                /\ \A f \in DOMAIN currentBook \ {"pages"} : currentBook'[f] = currentBook[f]
                /\ Len(currentBook'.pages) = Len(currentBook.pages)
                /\ \A n \in 1..Len(currentBook.pages) :
                     LET p == currentBook.pages[n]
                         q == currentBook'.pages[n]
                     IN /\ q.id = p.id
                        /\ p.id # pageId => q = p
                        /\ p.id = pageId =>
                             /\ DOMAIN q = DOMAIN p \cup DOMAIN updates
                             /\ \A f \in DOMAIN q :
                                  q[f] = IF f \in DOMAIN updates THEN updates[f] ELSE p[f]
                /\ (\A n \in 1..Len(currentBook.pages) : currentBook.pages[n].id # pageId)
                     => currentBook' = currentBook ]_vars

C17_Witness ==
  /\ currentBook.id # NoBookId
  /\ updCall.pageId = <<1, 2>>
  /\ updCall.updates = [narrationUrl |-> "audioUrl"]
  /\ Len(currentBook.pages) = 3
  /\ currentBook.pages[1].illustrationUrl = "dataUrl"
  /\ currentBook.pages[1].narrationUrl = NULL
  /\ currentBook.pages[2].narrationUrl = "audioUrl"
  /\ currentBook.pages[3].narrationUrl = NULL
  /\ myBooks # <<>>

PageWithId(id) == CHOOSE p \in {currentBook.pages[n] : n \in DOMAIN currentBook.pages} : p.id = id

\* C18: with a batch, a single-page generation and a narration in flight on
\* one book and settling in any order, no step takes an illustration or a
\* narration away from a page or changes the pages' ids; every page the
\* batch obtained a URL for, the page of a single-page generation that settles
\* with a URL and the page a narration was obtained for have that URL.
C18_NoLostUpdate ==
  /\ [](batch.pc # "idle"
          => \A n \in DOMAIN batch.updated :
               PageWithId(batch.updated[n]).illustrationUrl # NULL)
  /\ []((narr.pc = "done" /\ narr.url # NULL)
          => PageWithId(narr.pageId).narrationUrl = narr.url)
  /\ [][ /\ Len(currentBook'.pages) = Len(currentBook.pages)
         /\ \A n \in DOMAIN currentBook.pages :
              LET p == currentBook.pages[n]
                  q == currentBook'.pages[n]
              IN /\ q.id = p.id
                 /\ p.illustrationUrl # NULL => q.illustrationUrl = p.illustrationUrl
                 /\ p.narrationUrl # NULL => q.narrationUrl = p.narrationUrl
         /\ (imgs # <<>> /\ GenerateImageDone(1, "dataUrl"))
              => \A n \in DOMAIN currentBook'.pages :
                   currentBook'.pages[n].id = imgs[1]
                     => currentBook'.pages[n].illustrationUrl = "dataUrl" ]_vars

C18_Witness ==
  /\ Len(currentBook.pages) = 2
  /\ batch.pc = "done"
  /\ batch.updated = <<currentBook.pages[1].id>>
  /\ Len(batch.requested) = 1
  /\ narr.pc = "done"
  /\ narr.pageId = currentBook.pages[1].id
  /\ narr.url = "audioUrl"
  /\ imgs = <<>>
  /\ \A n \in 1..2 : currentBook.pages[n].illustrationUrl = "dataUrl"
  /\ currentBook.pages[1].narrationUrl = "audioUrl"

(* C19: the current book and the library stay consistent: whenever         *)
(* currentBook is non-null and myBooks has an entry with the same id, that *)
(* entry has the same pages, illustrationUrl and narrationUrl included, as *)
(* currentBook.  updatePage returns only a new currentBook, so the entry   *)
(* of myBooks the book was opened from keeps the pages it had.             *)
C19_LibraryConsistent ==
  currentBook.id # NoBookId =>
    \A n \in 1..Len(myBooks) :
      myBooks[n].id = currentBook.id => myBooks[n].pages = currentBook.pages

(* C20: a failure for one page does not abort the batch.  When the        *)
(* illustration request of handleGenerateAllImages throws or returns null, *)
(* that step changes no page and is followed by the request for the next   *)
(* page of the to-do list, if there is one; a batch that has ended has     *)
(* requested every page of its to-do list, in order, and none when no page *)
(* needed an illustration, and isBatchGenerating is false again; a batch   *)
(* that has not ended is never stuck, and is in its last delay at most     *)
(* once every request has completed.                                       *)
C20_BatchSurvivesFailure ==
  /\ [](batch.pc = "done" =>
          /\ ~isBatchGenerating
          /\ batch.todo = PagesToGenerate(batch.snapshot)
          /\ batch.requested = [n \in 1..Len(batch.todo) |-> batch.todo[n].id]
          /\ batch.settled = Len(batch.requested))
  /\ [](batch.pc \in {"awaiting", "delay"} =>
          /\ isBatchGenerating
          /\ batch.pc = "awaiting" => batch.settled < Len(batch.todo)
                                        /\ \A res \in IllustrationResults : ENABLED BatchImageDone(res)
          /\ batch.pc = "delay" => ENABLED BatchDelayDone)
  /\ [][ (BatchImageDone(NULL) \/ BatchImageDone("throw")) =>
           /\ currentBook' = currentBook
           /\ batch.idx < Len(batch.todo) =>
                /\ batch'.pc \in {"awaiting", "delay"}
                /\ batch'.pc = "awaiting" =>
                     batch'.requested = Append(batch.requested, batch.todo[batch.idx + 1].id) ]_vars

\* A batch has ended although the request for a page before the last one
\* failed: that page has no illustration, the later pages were requested.
C20_Witness ==
  /\ batch.pc = "done"
  /\ ~isBatchGenerating
  /\ Len(batch.todo) >= 2
  /\ Len(batch.requested) = Len(batch.todo)
  /\ \E n \in 1..(Len(batch.todo) - 1) :
       /\ \A m \in DOMAIN batch.updated : batch.updated[m] # batch.todo[n].id
       /\ PageWithId(batch.todo[n].id).illustrationUrl = NULL
       /\ \E m \in DOMAIN batch.updated : batch.updated[m] = batch.todo[n + 1].id

C22_NarrationOnce ==
  /\ [](/\ isNarrating <=> narr.pc = "awaiting"
        /\ narr.pc # "idle" =>
             /\ narr.requests \in {0, 1}
             /\ narr.played => narr.url # NULL
             /\ narr.pc = "awaiting" => narr.requests = 1 /\ ~narr.played
             /\ (narr.pc = "done" /\ narr.url # NULL) =>
                  /\ narr.played
                  /\ PageWithId(narr.pageId).narrationUrl = narr.url)
  /\ [][ /\ HandleNarration =>
              LET page == currentBook.pages[currentPage]
              IN /\ narr'.pageId = page.id
                 /\ currentBook' = currentBook
                 /\ page.narrationUrl # NULL =>
                      narr'.requests = 0 /\ narr'.played /\ narr'.url = page.narrationUrl
                 /\ page.narrationUrl = NULL => narr'.requests = 1 /\ ~narr'.played
         /\ (NarrationDone(NULL) \/ NarrationDone("throw")) =>
              /\ currentBook' = currentBook
              /\ ~narr'.played /\ narr'.requests = 1
              /\ ~isNarrating'
         /\ NarrationDone("audioUrl") =>
              /\ narr'.played /\ narr'.url = "audioUrl" /\ narr'.requests = 1
              /\ ~isNarrating' ]_vars

\* The page narrated before is narrated again: no request, the stored URL
\* is played.
C22_Witness ==
  /\ narr.pc = "done"
  /\ narr.requests = 0
  /\ narr.played
  /\ narr.url = "audioUrl"
  /\ PageWithId(narr.pageId).narrationUrl = "audioUrl"
  /\ ~isNarrating

(* C23: exportToPDF cleans up on every path: whenever it has finished,     *)
(* with a saved PDF or with an error raised while rendering a page, the    *)
(* hidden container appended to document.body and every page element       *)
(* appended to that container are detached, and isLoading is false.        *)
(* removeChild(container) is the last statement of the try block, so the   *)
(* catch path leaves the container, with the page element of the failed    *)
(* rendering, attached.                                                    *)
C23_ExportCleansUp ==
  pdf.pc \in {"saved", "failed"} =>
    /\ ~pdf.container
    /\ pdf.pageEls = 0
    /\ ~isLoading

\* ========================================================================
\* Part 4: App's authentication effect and handleLogout
\* (src/unnamed/part_003, lines 31-85), Login.handleSubmit (Login.tsx)
\* In this part useStore.user is the record setUser is given, with its id,
\* email and role; null is the record without an id.
\* ========================================================================

\* The accounts of the backend: id, email, and user_metadata.role (NULL when
\* the metadata has none).
Accounts ==
  { [id |-> "u1", email |-> "a@x.id", role |-> "admin"],
    [id |-> "u2", email |-> "b@x.id", role |-> "user"],
    [id |-> "u3", email |-> "c@x.id", role |-> NULL],
    [id |-> "u4", email |-> NULL, role |-> NULL] }

\* A null session, or data without a user.
NoSession == [id |-> NULL, email |-> NULL, role |-> NULL]

\* useStore.user = null
NoUser == [id |-> NULL, email |-> "", role |-> NULL]

Roles == {"admin", "user"}

\* session?.user
HasUser(s) == s.id # NULL

\* The object the effect passes to setUser: role is
\* session.user.user_metadata?.role || 'user', email is session.user.email || ''.
SessionUser(s) ==
  [id |-> s.id,
   email |-> IF s.email = NULL THEN "" ELSE s.email,
   role |-> IF s.role = NULL THEN "user" ELSE s.role]

\* The object Login.handleSubmit passes to setUser: role is
\* data.user.user_metadata?.role || role, with Login's role state.
LoginUser(data, role) ==
  [id |-> data.id,
   email |-> IF data.email = NULL THEN "" ELSE data.email,
   role |-> IF data.role = NULL THEN role ELSE data.role]

\* The events the auth client passes to the listener: SIGNED_OUT comes
\* without a session, INITIAL_SESSION with or without one, the others with
\* the session of an account.
AuthEvents ==
  [event : {"INITIAL_SESSION", "SIGNED_IN", "TOKEN_REFRESHED", "USER_UPDATED"},
   session : Accounts]
    \cup [event : {"INITIAL_SESSION", "SIGNED_OUT"}, session : {NoSession}]

NoEvent == [event |-> "none", session |-> NoSession]

\* What getSession resolves with: a session or none, or an error whose
\* message does or does not name a missing refresh token.
GetSessionResults ==
  [kind : {"session"}, session : Accounts \cup {NoSession}, tokenNotFound : {FALSE}]
    \cup [kind : {"error"}, session : {NoSession}, tokenNotFound : BOOLEAN]

\* What signInWithPassword resolves with: the account signed in, or an error.
SignInResults ==
  [kind : {"data"}, user : Accounts] \cup [kind : {"error"}, user : {NoSession}]

NoLogin == [pc |-> "idle", role |-> "user", result |-> [kind |-> "none", user |-> NoSession]]

\* Login is rendered while user is null; a Login mounted anew has role 'user'.
RoleAfter(u) == IF user # NoUser /\ u = NoUser THEN "user" ELSE loginRole

AuthInit ==
  /\ user = NoUser
  /\ sessionCheck = "pending"
  /\ lastEvent = NoEvent
  /\ loginRole = "user"
  /\ login = NoLogin
  /\ logout = "idle"

\* What the auth part leaves alone.
outsideAuth == <<illusVars, view, screen, step, formData, storeVars, genVars, previewVars,
                 settingsVars, serverVars>>

\* getSession().then(...): an error returns, after signOut and setUser(null)
\* when the refresh token is missing; a session with a user is stored.
GetSessionDone(res) ==
  /\ sessionCheck = "pending"
  /\ sessionCheck' = "done"
  /\ user' = IF res.kind = "error"
               THEN IF res.tokenNotFound THEN NoUser ELSE user
               ELSE IF HasUser(res.session) THEN SessionUser(res.session) ELSE user
  /\ loginRole' = RoleAfter(user')
  /\ UNCHANGED <<lastEvent, login, logout>>
  /\ UNCHANGED outsideAuth

\* The listener: if (event === 'SIGNED_OUT') setUser(null); then
\* if (session?.user) setUser({...}) else setUser(null).
UserAfterEventKeep(old, e) ==
  IF e.event = "SIGNED_OUT" THEN NoUser
  ELSE IF HasUser(e.session) THEN SessionUser(e.session) ELSE old
UserAfterEvent(old, e) ==
  LET signedOut == IF e.event = "SIGNED_OUT" THEN NoUser ELSE old
  IN IF HasUser(e.session) THEN SessionUser(e.session) ELSE NoUser

OnAuthStateChange(e) ==
  /\ user' = UserAfterEvent(user, e)
  /\ lastEvent' = e
  /\ loginRole' = RoleAfter(user')
  /\ UNCHANGED <<sessionCheck, login, logout>>
  /\ UNCHANGED outsideAuth

\* Click on the User or Admin button of the toggle.
SetRole(r) ==
  /\ user = NoUser
  /\ loginRole' = r
  /\ UNCHANGED <<user, sessionCheck, lastEvent, login, logout>>
  /\ UNCHANGED outsideAuth

\* Submit of the login form (the button is disabled while isLoading): the
\* call of signInWithPassword, with the role of this render.
LoginHandleSubmit ==
  /\ user = NoUser
  /\ login.pc # "awaiting"
  /\ login' = [NoLogin EXCEPT !.pc = "awaiting", !.role = loginRole]
  /\ UNCHANGED <<user, sessionCheck, lastEvent, loginRole, logout>>
  /\ UNCHANGED outsideAuth

\* signInWithPassword settles: an error is thrown to the catch block, a
\* user is stored with setUser.
SignInDone(res) ==
  /\ login.pc = "awaiting"
  /\ login' = [login EXCEPT !.pc = "done", !.result = res]
  /\ user' = IF res.kind = "data" /\ HasUser(res.user)
               THEN LoginUser(res.user, login.role) ELSE user
  /\ loginRole' = RoleAfter(user')
  /\ UNCHANGED <<sessionCheck, lastEvent, logout>>
  /\ UNCHANGED outsideAuth

\* handleLogout: await supabase.auth.signOut(), then setUser(null).
HandleLogoutStart ==
  /\ user # NoUser
  /\ logout = "idle"
  /\ logout' = "awaiting"
  /\ UNCHANGED <<user, sessionCheck, lastEvent, loginRole, login>>
  /\ UNCHANGED outsideAuth

HandleLogoutDone ==
  /\ logout = "awaiting"
  /\ logout' = "idle"
  /\ user' = NoUser
  /\ loginRole' = RoleAfter(user')
  /\ UNCHANGED <<sessionCheck, lastEvent, login>>
  /\ UNCHANGED outsideAuth

AuthNext ==
  \/ \E res \in GetSessionResults : GetSessionDone(res)
  \/ \E e \in AuthEvents : OnAuthStateChange(e)
  \/ \E r \in Roles : SetRole(r)
  \/ LoginHandleSubmit
  \/ \E res \in SignInResults : SignInDone(res)
  \/ HandleLogoutStart
  \/ HandleLogoutDone

\* ------------------------------------------------------------------------
\* Properties of the authentication part
\* ------------------------------------------------------------------------

(* C24: the auth listener keeps the store in step with the session: after  *)
(* every onAuthStateChange event the store's user is non-null exactly when *)
(* the event's session has a user, then with that user's id and email, and *)
(* it is null after SIGNED_OUT or any event without a session user;        *)
(* handleLogout leaves user null.                                          *)
C24_ListenerInStep ==
  [][ /\ \A e \in AuthEvents :
           OnAuthStateChange(e) =>
             /\ user'.id # NULL <=> e.session.id # NULL
             /\ e.session.id # NULL =>
                  /\ user'.id = e.session.id
                  /\ e.session.email # NULL => user'.email = e.session.email
             /\ (e.event = "SIGNED_OUT" \/ e.session.id = NULL) => user' = NoUser
      /\ HandleLogoutDone => user' = NoUser ]_vars

\* The listener got SIGNED_IN for an account while another user was in the
\* store, and the store holds the account of the event.
C24_Witness ==
  /\ lastEvent.event = "SIGNED_IN"
  /\ lastEvent.session.id = "u3"
  /\ user.id = "u3"
  /\ user.email = "c@x.id"
  /\ login.pc = "done"
  /\ login.result.kind = "data"
  /\ login.result.user.id = "u1"

(* C25: the role of the signed-in user in the store is determined by the   *)
(* account alone: it is the role of the account's user_metadata, or 'user' *)
(* when the metadata has none, whatever the Login form's toggle was and    *)
(* whatever the order in which the signInWithPassword result and the       *)
(* onAuthStateChange event are processed.  Login.handleSubmit falls back   *)
(* to its own role state, so an account without a role in its metadata is  *)
(* stored as 'admin' when the toggle was on Admin and the result of        *)
(* signInWithPassword is processed after the event.                        *)
C25_RoleFromAccount ==
  user.id # NULL =>
    \A a \in Accounts :
      a.id = user.id => user.role = IF a.role = NULL THEN "user" ELSE a.role

\* ========================================================================
\* Part 5: ProfileSettings (src/src/components/ProfileSettings.tsx) over
\* useStore.updateUser and updateBrand (src/unnamed/part_003)
\* In this part useStore.user also carries the name the profile form edits.
\* ========================================================================

\* Handler invocations in flight plus pending setTimeout callbacks.
MaxSaves == 2

\* useStore.brandSettings as the store is created.
DefaultBrand == [name |-> "Kisah Ai", tagline |-> "by Erna"]

\* The signed-in user ProfileSettings is mounted for.
SettingsUser == [id |-> "u1", email |-> "a@x.id", role |-> "user", name |-> "Ani"]

\* What the forms can hold when they are submitted.
ProfileDatas == [name : {"Ani", "Budi"}]
BrandDatas == [name : {"Kisah Ai", "Dongeng"}, tagline : {"by Erna"}]

\* What the backend update settles with: no error, an error, or a rejection.
SaveResults == {"ok", "error", "throw"}

\* if (error) throw error: the statements after it run without an error only.
NoErrorAlways(res) == TRUE
NoError(res) == res = "ok"

\* useStore.updateUser: user: state.user ? { ...state.user, ...updates } : null
UpdateUser(u, updates) == IF u.id = NULL THEN u ELSE [u EXCEPT !.name = updates.name]

\* useStore.updateBrand: brandSettings: { ...state.brandSettings, ...updates }
UpdateBrand(b, updates) == [b EXCEPT !.name = updates.name, !.tagline = updates.tagline]

NoSave == [calls |-> <<>>, timers |-> 0]

SettingsInit ==
  /\ user = SettingsUser
  /\ brandSettings = DefaultBrand
  /\ settingsLoading = FALSE
  /\ isSaved = FALSE
  /\ save = NoSave
  /\ accepted = {}

\* What the settings part leaves alone.
outsideSettings == <<illusVars, view, screen, step, formData, storeVars, genVars,
                     previewVars, authVars, serverVars>>

\* Submit of the profile form (its button is disabled while isLoading):
\* setIsLoading(true) and the call of supabase.auth.updateUser.
HandleProfileSave(data) ==
  /\ ~settingsLoading
  /\ Len(save.calls) + save.timers < MaxSaves
  /\ settingsLoading' = TRUE
  /\ save' = [save EXCEPT !.calls = Append(save.calls, [kind |-> "profile", data |-> data])]
  /\ UNCHANGED <<user, brandSettings, isSaved, accepted>>
  /\ UNCHANGED outsideSettings

\* Submit of the brand form (its button is never disabled):
\* setIsLoading(true) and the upsert into brand_settings.
HandleBrandSave(data) ==
  /\ Len(save.calls) + save.timers < MaxSaves
  /\ settingsLoading' = TRUE
  /\ save' = [save EXCEPT !.calls = Append(save.calls, [kind |-> "brand", data |-> data])]
  /\ UNCHANGED <<user, brandSettings, isSaved, accepted>>
  /\ UNCHANGED outsideSettings

\* The backend update of invocation n settles: without an error updateUser or
\* updateBrand, setIsSaved(true) and the timer; with one the alert; finally
\* setIsLoading(false).
SaveDone(n, res) ==
  /\ n \in 1..Len(save.calls)
  /\ LET call == save.calls[n]
     IN /\ accepted' = IF res = "ok" THEN accepted \cup {call} ELSE accepted
        /\ IF NoError(res)
             THEN /\ user' = IF call.kind = "profile" THEN UpdateUser(user, call.data) ELSE user
                  /\ brandSettings' = IF call.kind = "brand"
                                        THEN UpdateBrand(brandSettings, call.data)
                                        ELSE brandSettings
                  /\ isSaved' = TRUE
                  /\ save' = [calls |-> RemoveAt(save.calls, n), timers |-> save.timers + 1]
             ELSE /\ save' = [save EXCEPT !.calls = RemoveAt(save.calls, n)]
                  /\ UNCHANGED <<user, brandSettings, isSaved>>
  /\ settingsLoading' = FALSE
  /\ UNCHANGED outsideSettings

\* setTimeout(() => setIsSaved(false), 3000) fires.
SavedTimeout ==
  /\ save.timers > 0
  /\ save' = [save EXCEPT !.timers = save.timers - 1]
  /\ isSaved' = FALSE
  /\ UNCHANGED <<user, brandSettings, settingsLoading, accepted>>
  /\ UNCHANGED outsideSettings

SettingsNext ==
  \/ \E data \in ProfileDatas : HandleProfileSave(data)
  \/ \E data \in BrandDatas : HandleBrandSave(data)
  \/ \E n \in 1..MaxSaves, res \in SaveResults : SaveDone(n, res)
  \/ SavedTimeout

\* ------------------------------------------------------------------------
\* Properties of ProfileSettings
\* ------------------------------------------------------------------------

MaxRequests == 3

\* let supabaseAdmin: any = null; a client is the number of the createClient
\* call that made it.
NoClient == 0

\* process.env.VITE_SUPABASE_URL and process.env.SUPABASE_SERVICE_ROLE_KEY:
\* set or not.
Envs == [url : BOOLEAN, key : BOOLEAN]

\* req.body: the role is given or not.
Bodies == [email : {"a@x.id", "b@x.id"}, role : {NULL, "user"}]

\* What a call of the admin client settles with: no error, an error, or a
\* rejection.
BackendResults == {"ok", "error", "throw"}

\* role || 'admin'
RoleOrAdmin(role) == IF role = NULL THEN "admin" ELSE role

\* getSupabaseAdmin: the client it returns, given the module variable, the
\* environment and the number of clients created so far.
GetSupabaseAdminFresh(admin, e, n) == IF ~e.url \/ ~e.key THEN NoClient ELSE n + 1
GetSupabaseAdmin(admin, e, n) ==
  IF admin # NoClient THEN admin
  ELSE IF ~e.url \/ ~e.key THEN NoClient
  ELSE n + 1

NoReq == [pc |-> "idle", n |-> 0, body |-> [email |-> NULL, role |-> NULL],
          client |-> NoClient, log |-> <<>>, results |-> <<>>, status |-> 0,
          success |-> FALSE]

ServerInit ==
  /\ env \in Envs
  /\ supabaseAdmin = NoClient
  /\ created = 0
  /\ req = NoReq
  /\ authUsers = <<>>
  /\ profiles = <<>>

\* What the server leaves alone.
outsideServer == <<illusVars, navVars, storeVars, genVars, previewVars, authVars,
                   settingsVars>>

\* A request arrives: getSupabaseAdmin, the 500 answer without a client,
\* otherwise the call of auth.admin.createUser.
PostCreateUser(body) ==
  /\ req.pc \in {"idle", "answered"}
  /\ req.n < MaxRequests
  /\ LET adminClient == GetSupabaseAdmin(supabaseAdmin, env, created)
     IN /\ created' = IF adminClient # supabaseAdmin THEN created + 1 ELSE created
        /\ supabaseAdmin' = adminClient
        /\ req' = IF adminClient = NoClient
                    THEN [NoReq EXCEPT !.pc = "answered", !.n = req.n + 1, !.body = body,
                                       !.status = 500]
                    ELSE [NoReq EXCEPT !.pc = "auth", !.n = req.n + 1, !.body = body,
                                       !.client = adminClient, !.log = <<"createUser">>]
  /\ UNCHANGED <<env, authUsers, profiles>>
  /\ UNCHANGED outsideServer

\* auth.admin.createUser settles: an error is thrown to the catch block (500);
\* otherwise the insert into profiles is called.
CreateUserDone(res) ==
  /\ req.pc = "auth"
  /\ IF res = "ok"
       THEN /\ authUsers' = Append(authUsers, [id |-> Len(authUsers) + 1,
                                               email |-> req.body.email,
                                               role |-> RoleOrAdmin(req.body.role)])
            /\ req' = [req EXCEPT !.pc = "profile", !.log = Append(req.log, "insert"),
                                  !.results = Append(req.results, res)]
       ELSE /\ req' = [req EXCEPT !.pc = "answered", !.status = 500,
                                  !.results = Append(req.results, res)]
            /\ UNCHANGED authUsers
  /\ UNCHANGED <<env, supabaseAdmin, created, profiles>>
  /\ UNCHANGED outsideServer

\* The insert into profiles settles: an error is thrown to the catch block
\* (500); otherwise res.json({ success: true, ... }).
InsertProfileDone(res) ==
  /\ req.pc = "profile"
  /\ IF res = "ok"
       THEN /\ profiles' = Append(profiles, [id |-> Len(authUsers),
                                             email |-> req.body.email,
                                             role |-> RoleOrAdmin(req.body.role)])
            /\ req' = [req EXCEPT !.pc = "answered", !.status = 200, !.success = TRUE,
                                  !.results = Append(req.results, res)]
       ELSE /\ req' = [req EXCEPT !.pc = "answered", !.status = 500,
                                  !.results = Append(req.results, res)]
            /\ UNCHANGED profiles
  /\ UNCHANGED <<env, supabaseAdmin, created, authUsers>>
  /\ UNCHANGED outsideServer

ServerNext ==
  \/ \E body \in Bodies : PostCreateUser(body)
  \/ \E res \in BackendResults : CreateUserDone(res)
  \/ \E res \in BackendResults : InsertProfileDone(res)

\* ------------------------------------------------------------------------
\* Properties of the server
\* ------------------------------------------------------------------------

(* C27: POST /api/admin/create-user answers {success: true} only when the  *)
(* auth user creation and then the insert of the profile row succeeded;    *)
(* when the URL or the service-role key is missing it answers 500 without  *)
(* calling the backend; when the auth step fails it answers 500 and makes  *)
(* no profile insert; getSupabaseAdmin creates the client at most once and *)
(* returns the same client on every later call.                            *)
C27_CreateUser ==
  /\ [](req.pc = "answered" =>
          /\ req.status \in {200, 500}
          /\ req.success <=> req.status = 200
          /\ req.success <=> req.results = <<"ok", "ok">>
          /\ req.success => req.log = <<"createUser", "insert">>
          /\ (~env.url \/ ~env.key) => req.status = 500 /\ req.log = <<>>
          /\ (Len(req.results) >= 1 /\ req.results[1] # "ok") =>
               req.status = 500 /\ req.log = <<"createUser">>)
  /\ [](/\ created <= 1
        /\ supabaseAdmin # NoClient <=> created = 1
        /\ req.log # <<>> => req.client # NoClient /\ req.client = supabaseAdmin
        /\ Len(profiles) <= Len(authUsers))
  /\ [][ /\ supabaseAdmin # NoClient => supabaseAdmin' = supabaseAdmin
         /\ Len(profiles') > Len(profiles) =>
              req.log = <<"createUser", "insert">> /\ req.results = <<"ok">> ]_vars

\* A later request was answered with success through the client the first
\* request created.
C27_Witness ==
  /\ req.pc = "answered"
  /\ req.success
  /\ req.n = 2
  /\ req.client = supabaseAdmin
  /\ created = 1
  /\ Len(authUsers) = 2
  /\ Len(profiles) = 1
\* ------------------------------------------------------------------------
\* BookPreview's state while the preview is not under study
\* ------------------------------------------------------------------------
PreviewAtRest ==
  /\ currentPage = 0
  /\ lastNav = NoNav
  /\ isGeneratingImg = FALSE
  /\ imgs = <<>>
  /\ isBatchGenerating = FALSE
  /\ batchProgress = 0
  /\ batch = [pc |-> "idle"]
  /\ pdf = [pc |-> "idle"]
  /\ isNarrating = FALSE
  /\ narr = NoNarration
  /\ updCall = NoCall

\* generateIllustration while it is not under study: no invocation.
IllusAtRest ==
  /\ apiKey = TRUE
  /\ giPc = "idle"
  /\ retries = DefaultRetries
  /\ i = 0
  /\ requests = 0
  /\ outcomes = <<>>
  /\ waits = <<>>
  /\ giResult = [kind |-> "none"]

\* App, the store and StoryWizard while they are not under study, the
\* store's user apart.
AppAtRest ==
  /\ view = "dashboard"
  /\ screen = "login"
  /\ myBooks = <<>>
  /\ currentBook = NoBook
  /\ isLoading = FALSE
  /\ error = NULL
  /\ fetching = 0
  /\ step = InitialStep
  /\ formData = InitialFormData
  /\ gen = NewGen
  /\ books = <<>>
  /\ pageRows = {}

\* The authentication effect and Login while they are not under study.
AuthAtRest ==
  /\ sessionCheck = "pending"
  /\ lastEvent = NoEvent
  /\ loginRole = "user"
  /\ login = NoLogin
  /\ logout = "idle"

\* ProfileSettings while it is not under study: not mounted.
SettingsAtRest ==
  /\ brandSettings = DefaultBrand
  /\ settingsLoading = FALSE
  /\ isSaved = FALSE
  /\ save = NoSave
  /\ accepted = {}

\* The server while it is not under study: no request yet.
ServerAtRest ==
  /\ env = [url |-> TRUE, key |-> TRUE]
  /\ supabaseAdmin = NoClient
  /\ created = 0
  /\ req = NoReq
  /\ authUsers = <<>>
  /\ profiles = <<>>

\* Everything outside the storybook parts at rest.
StoryOnly == AuthAtRest /\ SettingsAtRest /\ ServerAtRest

\* ------------------------------------------------------------------------
\* Specifications: each part runs with the other parts at rest
\* ------------------------------------------------------------------------
InitIllus == IllusInit /\ AppInit /\ PreviewAtRest /\ StoryOnly
SpecIllus == InitIllus /\ [][IllusNext]_vars

InitApp == AppInit /\ IllusAtRest /\ PreviewAtRest /\ StoryOnly
SpecApp == InitApp /\ [][AppNext]_vars

InitGenerate == GenerateInit /\ IllusAtRest /\ PreviewAtRest /\ StoryOnly
SpecGenerate == InitGenerate /\ [][GenerateNext]_vars

InitUpdatePage == UpdatePageInit /\ IllusAtRest /\ PreviewAtRest /\ StoryOnly
SpecUpdatePage == InitUpdatePage /\ [][UpdatePageNext]_vars

InitPreview == PreviewInit /\ IllusAtRest /\ StoryOnly
SpecPreview == InitPreview /\ [][PreviewNext]_vars

InitConcurrent == ConcurrentInit /\ IllusAtRest /\ StoryOnly
SpecConcurrent == InitConcurrent /\ [][ConcurrentNext]_vars

SpecExport == InitPreview /\ [][ExportNext]_vars

InitAuth == AuthInit /\ AppAtRest /\ IllusAtRest /\ PreviewAtRest /\ SettingsAtRest /\ ServerAtRest
SpecAuth == InitAuth /\ [][AuthNext]_vars

InitSettings == SettingsInit /\ AppAtRest /\ IllusAtRest /\ PreviewAtRest /\ AuthAtRest /\ ServerAtRest
SpecSettings == InitSettings /\ [][SettingsNext]_vars

InitServer == ServerInit /\ AppInit /\ IllusAtRest /\ PreviewAtRest /\ AuthAtRest /\ SettingsAtRest
SpecServer == InitServer /\ [][ServerNext]_vars
====
